---- MODULE Spec2Model ----
(***************************************************************************)
(* whisper_transcribe.py: a command-line adapter around a speech model.    *)
(*                                                                         *)
(* A Python str is modelled as a sequence of fragments (an f-string is the *)
(* concatenation of its literal parts and its interpolated values), a      *)
(* Python number as a tagged record, a dict as a function on its keys and  *)
(* a list as a sequence.  One run of the script is one behaviour: the      *)
(* command line, the process environment, the file system and the audio's  *)
(* transcript are chosen by Init, the outcomes of the library calls        *)
(* (import, cuda probe, model load, transcription, flush) by the actions.  *)
(* The writes of print() and the interpreter's own flush at exit are taken *)
(* to succeed; the one output failure in the model is the flush the code   *)
(* calls itself.  An exception no except clause matches ends the process   *)
(* with the interpreter's traceback on standard error and exit status 1.   *)
(***************************************************************************)
EXTENDS Integers, Sequences, FiniteSets, TLC

VARIABLES
    argv,        \* sys.argv, argv[1] is the script (Python's sys.argv[0])
    environ,     \* os.environ restricted to WHISPER_CPU_ONLY
    fs,          \* the file system: venv/lib, site-packages dirs, audio files
    transcript,  \* what the pretrained model returns for the audio
    pc,          \* position of the run
    audio_path,  \* parameter of transcribe_audio
    language,    \* parameter of transcribe_audio
    sys_path,    \* directories added by site.addsitedir
    stderr,      \* lines printed to standard error
    stdout,      \* JSON documents printed to standard output
    cuda,        \* answers of torch.cuda.is_available()
    device,      \* local `device`
    loads,       \* calls made to whisper.load_model
    calls,       \* calls made to model.transcribe
    result,      \* local `result`
    output,      \* local `output`
    exc,         \* exception in flight
    raisedAt,    \* step that raised
    steps,       \* steps of the pipeline begun so far, in order
    exitCode     \* exit status of the process, -1 while it runs

vars == <<argv, environ, fs, transcript, pc, audio_path, language, sys_path,
          stderr, stdout, cuda, device, loads, calls, result, output, exc,
          raisedAt, steps, exitCode>>

----------------------------------------------------------------------------
(* Bounds *)

MaxArgs == 3      \* command-line arguments after the script name
MaxEntries == 2   \* entries of venv/lib
MaxSegs == 2      \* segments of a transcript
MaxWords == 2     \* words of a segment

----------------------------------------------------------------------------
(* Python values *)

SeqsUpTo(S, n) == UNION {[1..k -> S] : k \in 0..n}

NoDupSeqsUpTo(S, n) ==
    {s \in SeqsUpTo(S, n) : \A i, j \in DOMAIN s : s[i] = s[j] => i = j}

PyFloat(tenths) == [t |-> "float", v |-> tenths]

PyInt(n) == [t |-> "int", v |-> n]

\* a str where the type of a value is decided at run time (the values of the
\* model's dicts and of the output dicts)
PyStr(s) == [t |-> "str", s |-> s]

\* repr of a number: a float (given in tenths) keeps its fraction, an int has none
Repr(x) ==
    IF x.t = "float"
    THEN <<ToString(x.v \div 10) \o "." \o ToString(x.v % 10)>>
    ELSE <<ToString(x.v)>>

\* str(x)
Str(x) == IF x.t = "str" THEN x ELSE PyStr(Repr(x))

\* dict.get(key, default)
Get(d, key, default) == IF key \in DOMAIN d THEN d[key] ELSE default

IsSpace(frag) == frag \in {" ", "\n", "\t"}

RECURSIVE LStrip(_)
LStrip(s) ==
    IF s # <<>> /\ IsSpace(Head(s)) THEN LStrip(Tail(s)) ELSE s

RECURSIVE RStrip(_)
RStrip(s) ==
    IF s # <<>> /\ IsSpace(s[Len(s)])
    THEN RStrip(SubSeq(s, 1, Len(s) - 1))
    ELSE s

\* x.strip()
Strip(x) == PyStr(RStrip(LStrip(x.s)))

\* str.startswith(prefix)
StartsWith(s, prefix) ==
    Len(s) >= Len(prefix) /\ SubSeq(s, 1, Len(prefix)) = prefix

----------------------------------------------------------------------------
(* json.dumps(..., ensure_ascii=False): the JSON document of a value *)

JString(s) == [json |-> "string", chars |-> s]

JNumber(x) == [json |-> "number", lit |-> Repr(x)]

JArray(items) == [json |-> "array", items |-> items]

\* the encoder goes by the type the value has at run time
DumpsValue(x) == IF x.t = "str" THEN JString(x.s) ELSE JNumber(x)

DumpsWord(w) ==
    [text |-> DumpsValue(w.text), start |-> DumpsValue(w.start), end |-> DumpsValue(w.end)]

DumpsSegment(s) ==
    [text  |-> DumpsValue(s.text),
     start |-> DumpsValue(s.start),
     end   |-> DumpsValue(s.end),
     words |-> JArray([i \in DOMAIN s.words |-> DumpsWord(s.words[i])])]

DumpsOutput(o) ==
    [text     |-> DumpsValue(o.text),
     segments |-> JArray([i \in DOMAIN o.segments |-> DumpsSegment(o.segments[i])])]

DumpsError(message) ==
    [error |-> JString(message), text |-> JString(<<>>), segments |-> JArray(<<>>)]

----------------------------------------------------------------------------
(* Exceptions *)

NoExc == [type |-> "None", msg |-> <<>>]

Raise(type, msg) == [type |-> type, msg |-> msg]

\* the classes of the exception hierarchy each raised type belongs to
Bases(type) ==
    CASE type = "ModuleNotFoundError" ->
            {"ModuleNotFoundError", "ImportError", "Exception"}
      [] type = "ImportError" -> {"ImportError", "Exception"}
      [] type = "FileNotFoundError" -> {"FileNotFoundError", "OSError", "Exception"}
      [] type = "OSError" -> {"OSError", "Exception"}
      [] type = "BrokenPipeError" -> {"BrokenPipeError", "OSError", "Exception"}
      [] type = "RuntimeError" -> {"RuntimeError", "Exception"}
      [] type = "KeyError" -> {"KeyError", "Exception"}
      [] OTHER -> {}

IsInstance(e, class) == class \in Bases(e.type)

----------------------------------------------------------------------------
(* Inputs of a run *)

Script == <<"whisper_transcribe.py">>

ScriptDir == <<"/app/src/services">>

Tokens == {<<"a.wav">>, <<"en">>}

Argvs == {Script \o a : a \in SeqsUpTo(Tokens, MaxArgs)}

EmptyDict == [k \in {} |-> <<>>]

Environs ==
    {EmptyDict} \cup
    {[WHISPER_CPU_ONLY |-> <<v>>] : v \in {"0", "1", "true"}}

DirNames == {<<"python2", ".7">>, <<"python3", ".9">>, <<"python3", ".11">>}

\* venv/lib is absent, or holds some directories in the order os.listdir
\* gives them; some of those hold a site-packages directory; the audio file
\* a.wav exists or not
FileSystems ==
    {[venv_lib |-> [exists |-> FALSE, entries |-> <<>>],
      site_packages |-> {},
      files |-> f] : f \in SUBSET {<<"a.wav">>}}
    \cup
    {[venv_lib |-> [exists |-> TRUE, entries |-> l],
      site_packages |-> sp,
      files |-> f] :
        l \in NoDupSeqsUpTo(DirNames, MaxEntries),
        sp \in SUBSET DirNames,
        f \in SUBSET {<<"a.wav">>}}

Canonical(fsys) ==
    fsys.site_packages \subseteq {fsys.venv_lib.entries[i] : i \in DOMAIN fsys.venv_lib.entries}

\* The words, segments and results the model may return
WordSamples ==
    {[text |-> PyStr(<<" ", "xin">>), start |-> PyFloat(0), end |-> PyFloat(5)],
     [word |-> PyStr(<<" ", "chao">>), probability |-> PyFloat(9)]}

SegmentAttrSamples ==
    {[text |-> PyStr(<<" ", "xin", " ", "chao", " ">>),
      start |-> PyFloat(0), end |-> PyFloat(12)],
     [id |-> PyInt(1)]}

Segments ==
    SegmentAttrSamples \cup
    {a @@ [words |-> ws] :
        a \in SegmentAttrSamples, ws \in SeqsUpTo(WordSamples, MaxWords)}

FullText == PyStr(<<" ", "xin", " ", "chao", " ", "ban">>)

BoundedTranscripts ==
    {[text |-> FullText, segments |-> ss] : ss \in SeqsUpTo(Segments, MaxSegs)}
    \cup {[text |-> FullText]}

SampleTranscripts ==
    {[text |-> FullText,
      segments |-> <<[text |-> PyStr(<<" ", "xin", " ", "chao", " ">>),
                      start |-> PyFloat(0), end |-> PyFloat(12),
                      words |-> <<[text |-> PyStr(<<" ", "xin">>), start |-> PyFloat(0),
                                   end |-> PyFloat(5)],
                                  [word |-> PyStr(<<" ", "chao">>),
                                   probability |-> PyFloat(9)]>>],
                     [id |-> PyInt(1)]>>],
     [text |-> FullText]}

TypeOK ==
    /\ argv \in Argvs
    /\ environ \in Environs
    /\ fs \in FileSystems
    /\ pc \in {"main", "setup", "import", "exists", "device", "load",
               "transcribe", "reshape", "output", "flush",
               "except_import", "except_any", "exited"}
    /\ exitCode \in {-1, 0, 1}

InitRun ==
    /\ pc = "main"
    /\ audio_path = <<>>
    /\ language = <<>>
    /\ sys_path = <<>>
    /\ stderr = <<>>
    /\ stdout = <<>>
    /\ cuda = <<>>
    /\ device = <<>>
    /\ loads = <<>>
    /\ calls = <<>>
    /\ result = EmptyDict
    /\ output = EmptyDict
    /\ exc = NoExc
    /\ raisedAt = "none"
    /\ steps = <<>>
    /\ exitCode = -1

Init ==
    /\ argv \in Argvs
    /\ environ \in Environs
    /\ fs \in {f \in FileSystems : Canonical(f)}
    /\ transcript \in SampleTranscripts
    /\ InitRun

\* One command line and one environment, every transcript within the bounds
InitReshape ==
    /\ argv = Script \o <<<<"a.wav">>>>
    /\ environ = [WHISPER_CPU_ONLY |-> <<"1">>]
    /\ fs = [venv_lib |-> [exists |-> TRUE, entries |-> <<<<"python3", ".9">>>>],
             site_packages |-> {<<"python3", ".9">>},
             files |-> {<<"a.wav">>}]
    /\ transcript \in BoundedTranscripts
    /\ InitRun

----------------------------------------------------------------------------
(* The code of the run *)

PipelineOrder ==
    <<"setup", "import", "exists", "device", "load", "transcribe", "reshape", "output">>

\* NextStep with the existence check of the audio file moved behind the load
NextStepLoadFirst(step) ==
    CASE step = "main" -> "setup"
      [] step = "setup" -> "import"
      [] step = "import" -> "device"
      [] step = "device" -> "load"
      [] step = "load" -> "exists"
      [] step = "exists" -> "transcribe"
      [] step = "transcribe" -> "reshape"
      [] step = "reshape" -> "output"
      [] step = "output" -> "flush"
      [] step = "flush" -> "exited"

\* The statement that follows each statement of the run when it returns
NextStep(step) ==
    CASE step = "main" -> "setup"
      [] step = "setup" -> "import"
      [] step = "import" -> "exists"
      [] step = "exists" -> "device"
      [] step = "device" -> "load"
      [] step = "load" -> "transcribe"
      [] step = "transcribe" -> "reshape"
      [] step = "reshape" -> "output"
      [] step = "output" -> "flush"
      [] step = "flush" -> "exited"

\* The except clause that guards each statement
Handler(step) ==
    IF step \in {"setup", "import"} THEN "except_import" ELSE "except_any"

\* len(sys.argv) < 2
NoAudioArg(av) == Len(av) < 2

\* sys.argv[1]
AudioPathArg(av) == av[2]

\* LanguageArg taking the last argument for the language
LanguageArgLast(av) == IF Len(av) > 2 THEN av[Len(av)] ELSE <<"vi">>

\* sys.argv[2] if len(sys.argv) > 2 else "vi"
LanguageArg(av) == IF Len(av) > 2 THEN av[3] ELSE <<"vi">>

\* NoFileError without its text and segments keys
NoFileErrorBare == [error |-> JString(<<"No audio file provided">>)]

NoFileError == DumpsError(<<"No audio file provided">>)

\* os.path.join(script_dir, "venv", "lib", py_ver, "site-packages")
SitePackagesPath(py_ver) ==
    ScriptDir \o <<"/venv/lib/">> \o py_ver \o <<"/site-packages">>

\* the loop of setup_environment over the rest of the listing: the paths to
\* add, none or the first whose name starts with python3 and whose
\* site-packages exists
RECURSIVE FindSitePackages(_, _)
FindSitePackages(entries, fsys) ==
    IF entries = <<>>
    THEN <<>>
    ELSE IF /\ StartsWith(Head(entries), <<"python3">>)
            /\ Head(entries) \in fsys.site_packages
         THEN <<SitePackagesPath(Head(entries))>>
         ELSE FindSitePackages(Tail(entries), fsys)

\* CpuOnly with the flag never read
CpuOnlyIgnored(env) == FALSE

\* os.environ.get("WHISPER_CPU_ONLY", "0") == "1"
CpuOnly(env) == Get(env, "WHISPER_CPU_ONLY", <<"0">>) = <<"1">>

\* "cuda" if torch.cuda.is_available() else "cpu"
ProbedDevice(available) == IF available THEN <<"cuda">> ELSE <<"cpu">>

\* ReshapeWords without the str() around the times
RECURSIVE ReshapeWordsRaw(_, _)
ReshapeWordsRaw(ws, words) ==
    IF ws = <<>>
    THEN words
    ELSE ReshapeWordsRaw(Tail(ws),
            Append(words,
                   [text  |-> Strip(Get(Head(ws), "text", PyStr(<<>>))),
                    start |-> Get(Head(ws), "start", PyInt(0)),
                    end   |-> Get(Head(ws), "end", PyInt(0))]))

\* the loop over segment["words"], `words` the list built so far
RECURSIVE ReshapeWords(_, _)
ReshapeWords(ws, words) ==
    IF ws = <<>>
    THEN words
    ELSE ReshapeWords(Tail(ws),
            Append(words,
                   [text  |-> Strip(Get(Head(ws), "text", PyStr(<<>>))),
                    start |-> Str(Get(Head(ws), "start", PyInt(0))),
                    end   |-> Str(Get(Head(ws), "end", PyInt(0)))]))

SegmentWords(segment) ==
    IF "words" \in DOMAIN segment THEN ReshapeWords(segment.words, <<>>) ELSE <<>>

\* ReshapeSegments inserting each segment at the front of the list
RECURSIVE ReshapeSegmentsPrepend(_, _)
ReshapeSegmentsPrepend(ss, segments) ==
    IF ss = <<>>
    THEN segments
    ELSE ReshapeSegmentsPrepend(Tail(ss),
            <<[text  |-> Strip(Get(Head(ss), "text", PyStr(<<>>))),
               start |-> Get(Head(ss), "start", PyInt(0)),
               end   |-> Get(Head(ss), "end", PyInt(0)),
               words |-> SegmentWords(Head(ss))]>> \o segments)

\* the loop over result["segments"], `segments` the list built so far
RECURSIVE ReshapeSegments(_, _)
ReshapeSegments(ss, segments) ==
    IF ss = <<>>
    THEN segments
    ELSE ReshapeSegments(Tail(ss),
            Append(segments,
                   [text  |-> Strip(Get(Head(ss), "text", PyStr(<<>>))),
                    start |-> Get(Head(ss), "start", PyInt(0)),
                    end   |-> Get(Head(ss), "end", PyInt(0)),
                    words |-> SegmentWords(Head(ss))]))

Main ==
    /\ pc = "main"
    /\ IF NoAudioArg(argv)
       THEN /\ stdout' = Append(stdout, NoFileError)
            /\ exitCode' = 1
            /\ pc' = "exited"
            /\ UNCHANGED <<audio_path, language>>
       ELSE /\ audio_path' = AudioPathArg(argv)
            /\ language' = LanguageArg(argv)
            /\ pc' = NextStep("main")
            /\ UNCHANGED <<stdout, exitCode>>
    /\ UNCHANGED <<argv, environ, fs, transcript, sys_path, stderr, cuda, device,
                   loads, calls, result, output, exc, raisedAt, steps>>

SetupEnvironment ==
    /\ pc = "setup"
    /\ steps' = Append(steps, "setup")
    /\ IF ~fs.venv_lib.exists
       THEN /\ exc' = Raise("FileNotFoundError",
                            <<"[Errno 2] No such file or directory: ">>
                                \o ScriptDir \o <<"/venv/lib">>)
            /\ raisedAt' = "setup"
            /\ pc' = Handler("setup")
            /\ UNCHANGED <<sys_path, stderr>>
       ELSE LET found == FindSitePackages(fs.venv_lib.entries, fs) IN
            /\ sys_path' = sys_path \o found
            /\ stderr' = stderr \o
                    [i \in DOMAIN found |-> <<"Added ">> \o found[i] \o <<" to Python path">>]
            /\ pc' = NextStep("setup")
            /\ UNCHANGED <<exc, raisedAt>>
    /\ UNCHANGED <<argv, environ, fs, transcript, audio_path, language, stdout,
                   cuda, device, loads, calls, result, output, exitCode>>

ImportFailures ==
    {Raise("ModuleNotFoundError", <<"No module named ", "'whisper'">>),
     Raise("OSError", <<"libcudart.so: cannot open shared object file">>)}

ImportModules ==
    /\ pc = "import"
    /\ steps' = Append(steps, "import")
    /\ \E e \in {NoExc} \cup ImportFailures :
        IF e = NoExc
        THEN /\ pc' = NextStep("import")
             /\ UNCHANGED <<exc, raisedAt>>
        ELSE /\ exc' = e
             /\ raisedAt' = "import"
             /\ pc' = Handler("import")
    /\ UNCHANGED <<argv, environ, fs, transcript, audio_path, language, sys_path,
                   stderr, stdout, cuda, device, loads, calls, result, output,
                   exitCode>>

\* except ImportError: the only clause of the first try
HandleImportError ==
    /\ pc = "except_import"
    /\ IF IsInstance(exc, "ImportError")
       THEN /\ stdout' = Append(stdout,
                    DumpsError(<<"Failed to import required modules: ">> \o exc.msg))
            /\ UNCHANGED stderr
       ELSE \* no clause matches: the interpreter prints the traceback and exits 1
            /\ stderr' = Append(stderr, <<"Traceback (most recent call last): ", exc.type>>)
            /\ UNCHANGED stdout
    /\ exitCode' = 1
    /\ pc' = "exited"
    /\ UNCHANGED <<argv, environ, fs, transcript, audio_path, language, sys_path,
                   cuda, device, loads, calls, result, output, exc, raisedAt, steps>>

CheckAudioFile ==
    /\ pc = "exists"
    /\ steps' = Append(steps, "exists")
    /\ IF audio_path \notin fs.files
       THEN /\ exc' = Raise("FileNotFoundError", <<"Audio file not found: ">> \o audio_path)
            /\ raisedAt' = "exists"
            /\ pc' = Handler("exists")
       ELSE /\ pc' = NextStep("exists")
            /\ UNCHANGED <<exc, raisedAt>>
    /\ UNCHANGED <<argv, environ, fs, transcript, audio_path, language, sys_path,
                   stderr, stdout, cuda, device, loads, calls, result, output,
                   exitCode>>

SelectDevice ==
    /\ pc = "device"
    /\ steps' = Append(steps, "device")
    /\ IF CpuOnly(environ)
       THEN /\ device' = <<"cpu">>
            /\ UNCHANGED cuda
       ELSE \E available \in BOOLEAN :
            /\ device' = ProbedDevice(available)
            /\ cuda' = Append(cuda, available)
    /\ stderr' = Append(stderr, <<"Using device: ">> \o device')
    /\ pc' = NextStep("device")
    /\ UNCHANGED <<argv, environ, fs, transcript, audio_path, language, sys_path,
                   stdout, loads, calls, result, output, exc, raisedAt, exitCode>>

LoadModel ==
    /\ pc = "load"
    /\ steps' = Append(steps, "load")
    /\ loads' = Append(loads, [name |-> <<"small">>, device |-> device])
    /\ \E e \in {NoExc, Raise("RuntimeError", <<"CUDA out of memory">>)} :
        IF e = NoExc
        THEN /\ pc' = NextStep("load")
             /\ UNCHANGED <<exc, raisedAt>>
        ELSE /\ exc' = e
             /\ raisedAt' = "load"
             /\ pc' = Handler("load")
    /\ UNCHANGED <<argv, environ, fs, transcript, audio_path, language, sys_path,
                   stderr, stdout, cuda, device, calls, result, output, exitCode>>

Transcribe ==
    /\ pc = "transcribe"
    /\ steps' = Append(steps, "transcribe")
    /\ calls' = Append(calls, [audio |-> audio_path, language |-> language,
                               word_timestamps |-> TRUE, verbose |-> FALSE,
                               fp16 |-> FALSE])
    /\ \E e \in {NoExc, Raise("RuntimeError", <<"Failed to load audio">>)} :
        IF e = NoExc
        THEN /\ result' = transcript
             /\ pc' = NextStep("transcribe")
             /\ UNCHANGED <<exc, raisedAt>>
        ELSE /\ exc' = e
             /\ raisedAt' = "transcribe"
             /\ pc' = Handler("transcribe")
             /\ UNCHANGED result
    /\ UNCHANGED <<argv, environ, fs, transcript, audio_path, language, sys_path,
                   stderr, stdout, cuda, device, loads, output, exitCode>>

Reshape ==
    /\ pc = "reshape"
    /\ steps' = Append(steps, "reshape")
    /\ IF "segments" \notin DOMAIN result
       THEN /\ exc' = Raise("KeyError", <<"'segments'">>)
            /\ raisedAt' = "reshape"
            /\ pc' = Handler("reshape")
            /\ UNCHANGED output
       ELSE /\ output' = [text |-> Strip(Get(result, "text", PyStr(<<>>))),
                          segments |-> ReshapeSegments(result.segments, <<>>)]
            /\ pc' = NextStep("reshape")
            /\ UNCHANGED <<exc, raisedAt>>
    /\ UNCHANGED <<argv, environ, fs, transcript, audio_path, language, sys_path,
                   stderr, stdout, cuda, device, loads, calls, result, exitCode>>

PrintOutput ==
    /\ pc = "output"
    /\ steps' = Append(steps, "output")
    /\ stdout' = Append(stdout, DumpsOutput(output))
    /\ pc' = NextStep("output")
    /\ UNCHANGED <<argv, environ, fs, transcript, audio_path, language, sys_path,
                   stderr, cuda, device, loads, calls, result, output, exc,
                   raisedAt, exitCode>>

\* sys.stdout.flush(), then the script ends
Flush ==
    /\ pc = "flush"
    /\ \E e \in {NoExc, Raise("BrokenPipeError", <<"[Errno 32] Broken pipe">>)} :
        IF e = NoExc
        THEN /\ pc' = NextStep("flush")
             /\ exitCode' = 0
             /\ UNCHANGED <<exc, raisedAt>>
        ELSE /\ exc' = e
             /\ raisedAt' = "output"
             /\ pc' = Handler("flush")
             /\ UNCHANGED exitCode
    /\ UNCHANGED <<argv, environ, fs, transcript, audio_path, language, sys_path,
                   stderr, stdout, cuda, device, loads, calls, result, output,
                   steps>>

\* except Exception: the only clause of the second try
HandleException ==
    /\ pc = "except_any"
    /\ IF IsInstance(exc, "Exception")
       THEN /\ stdout' = Append(stdout, DumpsError(exc.msg))
            /\ UNCHANGED stderr
       ELSE /\ stderr' = Append(stderr, <<"Traceback (most recent call last): ", exc.type>>)
            /\ UNCHANGED stdout
    /\ exitCode' = 1
    /\ pc' = "exited"
    /\ UNCHANGED <<argv, environ, fs, transcript, audio_path, language, sys_path,
                   cuda, device, loads, calls, result, output, exc, raisedAt, steps>>

Next ==
    \/ Main
    \/ SetupEnvironment
    \/ ImportModules
    \/ HandleImportError
    \/ CheckAudioFile
    \/ SelectDevice
    \/ LoadModel
    \/ Transcribe
    \/ Reshape
    \/ PrintOutput
    \/ Flush
    \/ HandleException

Spec == Init /\ [][Next]_vars

SpecReshape == InitReshape /\ [][Next]_vars

----------------------------------------------------------------------------
(* Properties *)

\* the string s holds the string needle
Mentions(s, needle) ==
    \E i \in 1..(Len(s) + 1) :
        /\ i + Len(needle) - 1 <= Len(s)
        /\ SubSeq(s, i, i + Len(needle) - 1) = needle

IsErrorPayload(doc) ==
    /\ DOMAIN doc = {"error", "text", "segments"}
    /\ doc.error.json = "string"
    /\ doc.text = [json |-> "string", chars |-> <<>>]
    /\ doc.segments = [json |-> "array", items |-> <<>>]

IsSuccessPayload(doc) == DOMAIN doc = {"text", "segments"}

Exited == pc = "exited"

Failed == raisedAt # "none" \/ (Exited /\ exitCode # 0)

HasAudioArg == Len(argv) >= 2

FlagIsOne ==
    /\ "WHISPER_CPU_ONLY" \in DOMAIN environ
    /\ environ["WHISPER_CPU_ONLY"] = <<"1">>

\* C1: every run that failed and has ended has exit code 1 and has printed an
\* error payload (error string, text "", segments []) to standard output.
C1_FailurePrintsErrorPayload ==
    (Exited /\ Failed) =>
        /\ exitCode = 1
        /\ \E i \in DOMAIN stdout : IsErrorPayload(stdout[i])

\* C2: a run that has written the success object exits 0 and never also
\* writes an error object: the success object stays the only document on
\* standard output.
C2_SuccessIsSoleOutput ==
    (\E i \in DOMAIN stdout : IsSuccessPayload(stdout[i])) =>
        /\ Len(stdout) = 1
        /\ Exited => exitCode = 0

\* the paths setup has to add for the file system: none, or the site-packages
\* of the first listed python3* directory that has one
ExpectedSitePackages ==
    LET es == fs.venv_lib.entries
        ok(i) == es[i][1] = "python3" /\ es[i] \in fs.site_packages
        hits == {i \in DOMAIN es : ok(i)}
    IN  IF hits = {}
        THEN <<>>
        ELSE LET first == CHOOSE i \in hits : \A j \in hits : i <= j
             IN  <<ScriptDir \o <<"/venv/lib/">> \o es[first] \o <<"/site-packages">>>>

\* C3: environment setup never raises; once it is over, the import path holds
\* exactly the first matching site-packages with one diagnostic line naming
\* it, or nothing and no line when there is no match (venv/lib absent
\* included), and the run goes on to the import.
C3_SetupNeverFails ==
    /\ raisedAt # "setup"
    /\ (steps # <<>> /\ pc # "setup") =>
        /\ sys_path = ExpectedSitePackages
        /\ Len(steps) = 1 =>
            /\ pc = "import"
            /\ Len(stderr) = Len(sys_path)
            /\ \A i \in DOMAIN sys_path : Mentions(stderr[i], sys_path[i])

\* C4: a run given an audio path that does not exist ends with exit code 1
\* and an error payload whose error string mentions the path, whatever the
\* dependency directory and the importability of the libraries.
C4_MissingFileNamesPath ==
    (Exited /\ HasAudioArg /\ argv[2] \notin fs.files) =>
        /\ exitCode = 1
        /\ \E i \in DOMAIN stdout :
            /\ IsErrorPayload(stdout[i])
            /\ Mentions(stdout[i].error.chars, argv[2])

\* C5: without arguments the run prints exactly the no-file error JSON and
\* exits 1, and does no setup, import, device selection, load or
\* transcription.
C5_NoArgs ==
    ~HasAudioArg =>
        /\ pc \in {"main", "exited"}
        /\ steps = <<>> /\ sys_path = <<>> /\ stderr = <<>>
        /\ cuda = <<>> /\ device = <<>> /\ loads = <<>> /\ calls = <<>>
        /\ Exited =>
            /\ exitCode = 1
            /\ stdout = <<[error |-> [json |-> "string",
                                      chars |-> <<"No audio file provided">>],
                           text |-> [json |-> "string", chars |-> <<>>],
                           segments |-> [json |-> "array", items |-> <<>>]]>>

C5_Witness == ~HasAudioArg /\ Exited

\* C6: once the device is chosen: with WHISPER_CPU_ONLY equal to "1" it is
\* cpu; otherwise the GPU was probed once and the device is cuda iff the
\* probe said available, else cpu; the diagnostic line names the device and
\* every model load is given it.
C6_DeviceSelection ==
    device # <<>> =>
        /\ FlagIsOne => device = <<"cpu">>
        /\ ~FlagIsOne =>
            /\ Len(cuda) = 1
            /\ device = (IF cuda[1] THEN <<"cuda">> ELSE <<"cpu">>)
        /\ \E i \in DOMAIN stderr : stderr[i] = <<"Using device: ">> \o device
        /\ \A i \in DOMAIN loads : loads[i].device = device

C6_Witness ==
    /\ FlagIsOne
    /\ Len(loads) = 1
    /\ loads[1].device = <<"cpu">>
    /\ stderr[Len(stderr)] = <<"Using device: ", "cpu">>

\* the string a number is printed as, "0" for a missing field
TimeChars(d, key) ==
    IF key \in DOMAIN d
    THEN <<ToString(d[key].v \div 10) \o "." \o ToString(d[key].v % 10)>>
    ELSE <<"0">>

\* C7: in every success output each word's start and end are JSON strings
\* holding the string form of the model's number ("0" when the field is
\* missing) and each segment's start and end are JSON numbers, the model's
\* value (0 when the field is missing).
C7_TimeTypes ==
    \A n \in DOMAIN stdout :
        IsSuccessPayload(stdout[n]) =>
            LET out == stdout[n].segments.items IN
            \A i \in DOMAIN out :
                LET seg == result.segments[i] IN
                /\ out[i].start = [json |-> "number", lit |-> TimeChars(seg, "start")]
                /\ out[i].end = [json |-> "number", lit |-> TimeChars(seg, "end")]
                /\ \A j \in DOMAIN out[i].words.items :
                    LET w == out[i].words.items[j]
                        word == seg.words[j]
                    IN  /\ w.start = [json |-> "string", chars |-> TimeChars(word, "start")]
                        /\ w.end = [json |-> "string", chars |-> TimeChars(word, "end")]

C7_Witness ==
    /\ Exited /\ exitCode = 0
    /\ Len(result.segments) = 2
    /\ "start" \in DOMAIN result.segments[1]
    /\ "start" \notin DOMAIN result.segments[2]
    /\ "words" \in DOMAIN result.segments[1]
    /\ Len(result.segments[1].words) = 2
    /\ "start" \in DOMAIN result.segments[1].words[1]
    /\ "end" \notin DOMAIN result.segments[1].words[2]

\* the text the output carries for a dict's text: trimmed, "" when missing
TextChars(d) ==
    IF "text" \in DOMAIN d THEN RStrip(LStrip(d.text.s)) ELSE <<>>

\* C8: the output's segments are as many as the model's and the i-th comes
\* from the model's i-th; its words are as many as that segment's and in its
\* order; a segment without word-level data gives an empty words list.
C8_OrderAndCount ==
    \A n \in DOMAIN stdout :
        IsSuccessPayload(stdout[n]) =>
            LET out == stdout[n].segments.items IN
            /\ Len(out) = Len(result.segments)
            /\ \A i \in DOMAIN out :
                LET seg == result.segments[i]
                    ws == out[i].words.items
                IN  /\ out[i].text.chars = TextChars(seg)
                    /\ out[i].start.lit = TimeChars(seg, "start")
                    /\ out[i].end.lit = TimeChars(seg, "end")
                    /\ IF "words" \in DOMAIN seg
                       THEN /\ Len(ws) = Len(seg.words)
                            /\ \A j \in DOMAIN ws :
                                /\ ws[j].text.chars = TextChars(seg.words[j])
                                /\ ws[j].start.chars = TimeChars(seg.words[j], "start")
                                /\ ws[j].end.chars = TimeChars(seg.words[j], "end")
                       ELSE ws = <<>>

C8_Witness ==
    /\ Exited /\ exitCode = 0
    /\ Len(result.segments) = 2
    /\ result.segments[1] # result.segments[2]
    /\ "words" \notin DOMAIN result.segments[1]
    /\ "words" \in DOMAIN result.segments[2]
    /\ Len(result.segments[2].words) = 2
    /\ result.segments[2].words[1] # result.segments[2].words[2]
    /\ Len(stdout[1].segments.items[2].words.items) = 2

\* C9: every transcription call is given the first argument as the audio
\* path and, as the language, the second argument when there is one and "vi"
\* otherwise; further arguments change neither.
C9_CallArguments ==
    \A i \in DOMAIN calls :
        /\ calls[i].audio = argv[2]
        /\ calls[i].language = (IF Len(argv) >= 3 THEN argv[3] ELSE <<"vi">>)

C9_Witness ==
    /\ Len(calls) = 1
    /\ Len(argv) = 4
    /\ argv[3] # argv[4]

IsPrefix(s, t) == Len(s) <= Len(t) /\ SubSeq(t, 1, Len(s)) = s

\* C10: the steps begun so far are an initial part of setup, import,
\* existence check, device, load, transcribe, reshape, output, each at most
\* once; the model is neither loaded nor run when the audio file is missing or
\* the import failed; the step that failed is the last step begun.
C10_LinearPipeline ==
    /\ IsPrefix(steps, PipelineOrder)
    /\ Len(loads) = (IF \E i \in DOMAIN steps : steps[i] = "load" THEN 1 ELSE 0)
    /\ Len(calls) = (IF \E i \in DOMAIN steps : steps[i] = "transcribe" THEN 1 ELSE 0)
    /\ (HasAudioArg /\ argv[2] \notin fs.files) => (loads = <<>> /\ calls = <<>>)
    /\ raisedAt \in {"setup", "import"} => (loads = <<>> /\ calls = <<>>)
    /\ raisedAt # "none" => (steps # <<>> /\ steps[Len(steps)] = raisedAt)

C10_Witness == Exited /\ exitCode = 0 /\ steps = PipelineOrder

====
